---- MODULE Spec2Model ----
(***************************************************************************)
(* Model of the analytical engine of app.py: calculate_metrics,            *)
(* perform_hypothesis_test and the part of main that filters the ledger    *)
(* and calls them.                                                         *)
(*                                                                         *)
(* A DataFrame is a sequence of rows; a row is a function from column      *)
(* names to cell values, so that adding a column changes the row's domain. *)
(* Numeric cells computed by pandas/numpy are modelled as exact values     *)
(* with the IEEE-754 specials the code can produce:                        *)
(*    [k |-> "fin",  n, d]   the rational n/d (d > 0, lowest terms)        *)
(*    [k |-> "root", n, d]   sign(n) * sqrt(|n|/d)  (a standard deviation  *)
(*                           or a quotient by one)                         *)
(*    [k |-> "inf",  n, d]   +infinity (n = 1) or -infinity (n = -1)       *)
(*    [k |-> "nan",  n, d]   NaN, pandas' missing value                    *)
(***************************************************************************)
EXTENDS Integers, Sequences, FiniteSets, TLC

VARIABLES raw_df, start_date, end_date, selected_coins, selected_sides,
          filtered_df, built_df, stats_df, prev_stats, t_stat, p_val,
          kelly_plot, report, calls, warned, pc

vars == <<raw_df, start_date, end_date, selected_coins, selected_sides,
          filtered_df, built_df, stats_df, prev_stats, t_stat, p_val,
          kelly_plot, report, calls, warned, pc>>

(***************************************************************************)
(* Bounds of the model.                                                    *)
(***************************************************************************)
MaxRecords == 3
MaxTestRecords == 4
MaxRawRecords == 2

(***************************************************************************)
(* Floating-point values.                                                  *)
(***************************************************************************)
NaN == [k |-> "nan", n |-> 0, d |-> 0]
PosInf == [k |-> "inf", n |-> 1, d |-> 0]
NegInf == [k |-> "inf", n |-> -1, d |-> 0]

AbsInt(i) == IF i < 0 THEN -i ELSE i
SignInt(i) == IF i < 0 THEN -1 ELSE IF i > 0 THEN 1 ELSE 0

RECURSIVE GCD(_, _)
GCD(a, b) == IF b = 0 THEN a ELSE GCD(b, a % b)

\* The rational n/d in lowest terms with a positive denominator (d # 0).
Fin(n, d) ==
    LET g == GCD(AbsInt(n), AbsInt(d))
        s == IF d < 0 THEN -1 ELSE 1
    IN  [k |-> "fin", n |-> s * (n \div g), d |-> s * (d \div g)]

\* sign(n/d) * sqrt(|n/d|); zero stays the number zero.
Root(n, d) ==
    LET f == Fin(n, d)
    IN  IF f.n = 0 THEN f ELSE [k |-> "root", n |-> f.n, d |-> f.d]

Num(i) == Fin(i, 1)
Zero == Num(0)

IsNaN(x) == x.k = "nan"
IsInf(x) == x.k = "inf"
IsFinite(x) == x.k \in {"fin", "root"}
Sign(x) == IF x.k = "nan" THEN 0 ELSE SignInt(x.n)

\* x > 0 as numpy evaluates it: False for NaN.
GtZero(x) == ~IsNaN(x) /\ x.n > 0
LtZero(x) == ~IsNaN(x) /\ x.n < 0

\* Series.abs()
Abs(x) == IF IsNaN(x) THEN NaN ELSE [x EXCEPT !.n = AbsInt(x.n)]

Neg(x) == IF IsNaN(x) THEN NaN ELSE [x EXCEPT !.n = -(x.n)]

\* x + y for the operands the engine adds (rationals, infinities, NaN).
Add(x, y) ==
    IF IsNaN(x) \/ IsNaN(y) THEN NaN
    ELSE IF IsInf(x) /\ IsInf(y) THEN (IF x.n = y.n THEN x ELSE NaN)
    ELSE IF IsInf(x) THEN x
    ELSE IF IsInf(y) THEN y
    ELSE Fin(x.n * y.d + y.n * x.d, x.d * y.d)

Sub(x, y) == Add(x, Neg(y))

\* x * y for rational, infinite or NaN operands.
Mul(x, y) ==
    IF IsNaN(x) \/ IsNaN(y) THEN NaN
    ELSE IF IsInf(x) \/ IsInf(y)
         THEN (IF Sign(x) * Sign(y) = 0 THEN NaN
               ELSE IF Sign(x) * Sign(y) > 0 THEN PosInf ELSE NegInf)
    ELSE Fin(x.n * y.n, x.d * y.d)

\* x / y in IEEE-754 arithmetic (numpy): a non-zero number over zero is an
\* infinity, 0/0 and inf/inf are NaN, a finite number over an infinity is 0.
\* x is rational, infinite or NaN; y may also be a root.
Div(x, y) ==
    IF IsNaN(x) \/ IsNaN(y) THEN NaN
    ELSE IF IsInf(x) THEN (IF IsInf(y) THEN NaN
                           ELSE IF x.n * (IF y.n < 0 THEN -1 ELSE 1) > 0
                                THEN PosInf ELSE NegInf)
    ELSE IF IsInf(y) THEN Zero
    ELSE IF y.n = 0 THEN (IF x.n = 0 THEN NaN
                          ELSE IF x.n > 0 THEN PosInf ELSE NegInf)
    ELSE IF y.k = "root"
         \* (a/b) / (s*sqrt(|n|/d)) = sign * sqrt(a^2 d / (b^2 |n|))
         THEN Root(SignInt(x.n) * SignInt(y.n) * x.n * x.n * y.d,
                   x.d * x.d * AbsInt(y.n))
    ELSE Fin(x.n * y.d, x.d * y.n)

(***************************************************************************)
(* Sequence helpers.                                                       *)
(***************************************************************************)
RECURSIVE SumInts(_)
SumInts(s) == IF s = <<>> THEN 0 ELSE Head(s) + SumInts(Tail(s))

RECURSIVE SumVals(_)
SumVals(s) == IF s = <<>> THEN Zero ELSE Add(Head(s), SumVals(Tail(s)))

Column(df, c) == [i \in 1..Len(df) |-> df[i][c]]

Squares(s) == [i \in 1..Len(s) |-> s[i] * s[i]]

IsNotNaN(x) == ~IsNaN(x)

(***************************************************************************)
(* pandas aggregations (groupby(...).agg), app.py lines 109-117.           *)
(***************************************************************************)
\* A missing cell of a text column (an empty CSV field read by read_csv).
NA == "<NA>"

\* agg 'first' in place of 'mean': the group's first value.
MeanIntsFirst(s) == Num(s[1])

\* 'mean' of a numeric column without missing values.
MeanInts(s) == Fin(SumInts(s), Len(s))

\* 'sum'
TotalInts(s) == Num(SumInts(s))

\* 'std': the sample standard deviation (ddof = 1), NaN for fewer than two
\* observations.  sum((x - mean)^2) / (n - 1) = (n*sum(x^2) - sum(x)^2) / (n*(n-1))
StdInts(s) ==
    LET n == Len(s)
    IN  IF n < 2 THEN NaN
        ELSE Root(n * SumInts(Squares(s)) - SumInts(s) * SumInts(s), n * (n - 1))

\* 'mean' of a column with missing values: NaN cells are skipped, and the
\* mean of no value at all is NaN.
MeanSkipNaN(s) ==
    LET present == SelectSeq(s, IsNotNaN)
    IN  IF present = <<>> THEN NaN
        ELSE Div(SumVals(present), Num(Len(present)))

\* 'mean' of the boolean column Is_Win: the fraction of True cells.
MeanBools(s) ==
    LET IsTrue(b) == b
    IN  Fin(Len(SelectSeq(s, IsTrue)), Len(s))

\* 'count': the number of cells that are not missing.
CountNotNull(s) ==
    LET Present(a) == a # NA
    IN  Len(SelectSeq(s, Present))

(***************************************************************************)
(* calculate_metrics, app.py lines 101-138.                                *)
(***************************************************************************)
sentiment_order == <<"Extreme Fear", "Fear", "Neutral", "Greed", "Extreme Greed">>

\* The five labels in the order groupby(sort=True) yields its keys
\* (lexicographic string order).
SortedLabels == <<"Extreme Fear", "Extreme Greed", "Fear", "Greed", "Neutral">>

Range(s) == {s[i] : i \in 1..Len(s)}

\* df[c] = vals: the column is added, or overwritten when already there.
SetColumn(df, c, vals) == [i \in 1..Len(df) |-> (c :> vals[i]) @@ df[i]]

\* Lines 103-105: the three helper columns are written into the caller's frame.
WithWinLoss(df) ==
    LET df1 == SetColumn(df, "Is_Win",
                   [i \in 1..Len(df) |-> df[i]["Closed PnL"] > 0])
        df2 == SetColumn(df1, "Win_Amt",
                   [i \in 1..Len(df) |-> IF df1[i]["Is_Win"]
                                         THEN Num(df1[i]["Closed PnL"]) ELSE NaN])
    IN  SetColumn(df2, "Loss_Amt",
                   [i \in 1..Len(df) |-> IF ~df2[i]["Is_Win"]
                                         THEN Num(df2[i]["Closed PnL"]) ELSE NaN])

\* Lines 109-119: one row of aggregates for the group g (a non-empty frame).
AggRow(label, g) ==
    [Sentiment         |-> label,
     Avg_PnL           |-> MeanInts(Column(g, "Closed PnL")),
     Total_PnL         |-> TotalInts(Column(g, "Closed PnL")),
     PnL_Std           |-> StdInts(Column(g, "Closed PnL")),
     Avg_Win_Size      |-> MeanSkipNaN(Column(g, "Win_Amt")),
     Avg_Loss_Size     |-> MeanSkipNaN(Column(g, "Loss_Amt")),
     Avg_Position_Size |-> MeanInts(Column(g, "Size USD")),
     Win_Rate          |-> MeanBools(Column(g, "Is_Win")),
     Trade_Count       |-> CountNotNull(Column(g, "Account")),
     Avg_Sentiment     |-> MeanInts(Column(g, "Sentiment_Score"))]

Group(df, label) ==
    LET InGroup(r) == r["Sentiment_Class"] = label
    IN  SelectSeq(df, InGroup)

\* groupby('Sentiment_Class'): one row per key that occurs, keys sorted.
RECURSIVE GroupByAgg(_, _)
GroupByAgg(df, keys) ==
    IF keys = <<>> THEN <<>>
    ELSE (IF Group(df, Head(keys)) = <<>> THEN <<>>
          ELSE <<AggRow(Head(keys), Group(df, Head(keys)))>>)
         \o GroupByAgg(df, Tail(keys))

\* Line 123
RiskRewardRatio(avg_win, avg_loss) == Div(avg_win, avg_loss)

\* The division without the np.where guard.
SharpeRatioUnguarded(avg_pnl, pnl_std) == Div(avg_pnl, pnl_std)

\* Line 127: np.where(PnL_Std > 0, Avg_PnL / PnL_Std, 0)
SharpeRatio(avg_pnl, pnl_std) ==
    IF GtZero(pnl_std) THEN Div(avg_pnl, pnl_std) ELSE Zero

\* The Kelly fraction clamped at zero inside the engine.
KellyCriterionClamped(win_rate, rr) ==
    LET raw == Sub(win_rate, Div(Sub(Num(1), win_rate), rr))
    IN  IF LtZero(raw) THEN Zero ELSE raw

\* Line 131: W - (1 - W) / R
KellyCriterion(win_rate, rr) == Sub(win_rate, Div(Sub(Num(1), win_rate), rr))

\* Line 132
KellyPct(kelly) == Mul(kelly, Num(100))

\* Lines 122-132 on one row.
Derive(r) ==
    LET loss  == Abs(r.Avg_Loss_Size)
        rr    == RiskRewardRatio(r.Avg_Win_Size, loss)
        kelly == KellyCriterion(r.Win_Rate, rr)
    IN  [Sentiment         |-> r.Sentiment,
         Avg_PnL           |-> r.Avg_PnL,
         Total_PnL         |-> r.Total_PnL,
         PnL_Std           |-> r.PnL_Std,
         Avg_Win_Size      |-> r.Avg_Win_Size,
         Avg_Loss_Size     |-> loss,
         Avg_Position_Size |-> r.Avg_Position_Size,
         Win_Rate          |-> r.Win_Rate,
         Trade_Count       |-> r.Trade_Count,
         Avg_Sentiment     |-> r.Avg_Sentiment,
         Risk_Reward_Ratio |-> rr,
         Sharpe_Ratio      |-> SharpeRatio(r.Avg_PnL, r.PnL_Std),
         Kelly_Criterion   |-> kelly,
         Kelly_Pct         |-> KellyPct(kelly)]

RECURSIVE RowsInOrder(_, _)
RowsInOrder(rows, order) ==
    IF order = <<>> THEN <<>>
    ELSE LET Is(r) == r.Sentiment = Head(order)
         IN  SelectSeq(rows, Is) \o RowsInOrder(rows, Tail(order))

\* The rows left in groupby's key order.
CategoricalSortSkipped(rows) == rows

\* Lines 135-136: sort by the ordered categorical; a label outside the
\* categories becomes a missing category and sorts last.
CategoricalSort(rows) ==
    LET Other(r) == r.Sentiment \notin Range(sentiment_order)
    IN  RowsInOrder(rows, sentiment_order) \o SelectSeq(rows, Other)

\* The frame calculate_metrics returns for the frame df it is given.
calculate_metrics(df) ==
    LET agg == GroupByAgg(WithWinLoss(df), SortedLabels)
    IN  CategoricalSort([i \in 1..Len(agg) |-> Derive(agg[i])])

(***************************************************************************)
(* perform_hypothesis_test, app.py lines 140-150.                          *)
(***************************************************************************)
\* Python's None, as the statistic and as the p-value.
None == [k |-> "none", n |-> 0, d |-> 0]
NoPValue == [k |-> "none", t |-> None, df |-> None]

\* np.var(a, ddof=1) of at least two observations.
VarInts(s) ==
    LET n == Len(s)
    IN  Fin(n * SumInts(Squares(s)) - SumInts(s) * SumInts(s), n * (n - 1))

\* Lines 142-143: df[df['Sentiment_Class'] == label]['Closed PnL']
GroupPnL(df, label) == Column(Group(df, label), "Closed PnL")

\* scipy's Welch degrees of freedom, with its NaN (0/0) replaced by 1.
WelchDf(vn1, vn2, n1, n2) ==
    LET both == Add(vn1, vn2)
        raw  == Div(Mul(both, both),
                    Add(Div(Mul(vn1, vn1), Num(n1 - 1)),
                        Div(Mul(vn2, vn2), Num(n2 - 1))))
    IN  IF IsNaN(raw) THEN Num(1) ELSE raw

\* The statistic of stats.ttest_ind(a, b, equal_var=False):
\* (mean(a) - mean(b)) / sqrt(var(a)/len(a) + var(b)/len(b)).
WelchT(a, b) ==
    LET vn1 == Div(VarInts(a), Num(Len(a)))
        vn2 == Div(VarInts(b), Num(Len(b)))
        sum == Add(vn1, vn2)
    IN  Div(Sub(MeanInts(a), MeanInts(b)), Root(sum.n, sum.d))

\* The two-sided p-value 2 * sf(|t|, df) of Student's t distribution, kept
\* symbolic: NaN for a NaN statistic, exactly 0 for an infinite one.
WelchP(t, dof) ==
    IF IsNaN(t) THEN [k |-> "nan", t |-> t, df |-> dof]
    ELSE IF IsInf(t) THEN [k |-> "zero", t |-> t, df |-> dof]
    ELSE [k |-> "sf", t |-> t, df |-> dof]

ttest_ind(a, b) ==
    LET t   == WelchT(a, b)
        dof == WelchDf(Div(VarInts(a), Num(Len(a))), Div(VarInts(b), Num(Len(b))),
                       Len(a), Len(b))
    IN  <<t, WelchP(t, dof)>>

\* Line 146: the sample-size check.
TooFewSamples(group_greed, group_fear) ==
    Len(group_greed) < 2 \/ Len(group_fear) < 2

perform_hypothesis_test(df) ==
    LET group_greed == GroupPnL(df, "Extreme Greed")
        group_fear  == GroupPnL(df, "Extreme Fear")
    IN  IF TooFewSamples(group_greed, group_fear)
        THEN <<None, NoPValue>>
        ELSE ttest_ind(group_greed, group_fear)

(***************************************************************************)
(* The consumers in main: the Kelly chart (line 235) and the report        *)
(* (lines 270-273).                                                        *)
(***************************************************************************)
\* max(0, x): Python returns its first argument unless a later one is greater,
\* so a NaN is plotted as 0.
Max0(x) == IF GtZero(x) THEN x ELSE Zero

\* Line 235: a new Series; stats_df is not written.
KellyPlot(stats) == [i \in 1..Len(stats) |-> Max0(stats[i].Kelly_Pct)]

HasRow(stats, label) == \E i \in 1..Len(stats) : stats[i].Sentiment = label
RowOf(stats, label) ==
    stats[CHOOSE i \in 1..Len(stats) : stats[i].Sentiment = label]

NoReport == [k |-> "none", eg_kelly |-> None, ef_kelly |-> None]

\* Lines 269-300: stats_df.loc[...] raises KeyError for a bucket that is absent.
GenerateReport(stats) ==
    IF HasRow(stats, "Extreme Greed") /\ HasRow(stats, "Extreme Fear")
    THEN [k |-> "html",
          eg_kelly |-> Max0(RowOf(stats, "Extreme Greed").Kelly_Pct),
          ef_kelly |-> Max0(RowOf(stats, "Extreme Fear").Kelly_Pct)]
    ELSE [k |-> "KeyError", eg_kelly |-> None, ef_kelly |-> None]

(***************************************************************************)
(* The record sets the model draws its inputs from.                        *)
(***************************************************************************)
\* One row of the merged frame load_data returns (lines 82-95).
Trade(date, coin, side, account, pnl, size, class, score) ==
    ("Date" :> date) @@ ("Coin" :> coin) @@ ("Side" :> side) @@
    ("Account" :> account) @@ ("Closed PnL" :> pnl) @@ ("Size USD" :> size) @@
    ("Sentiment_Class" :> class) @@ ("Sentiment_Score" :> score)

\* Sample (Closed PnL, Size USD) pairs: a loss, a flat trade and a win.
Samples == {<<-2, 3>>, <<0, 1>>, <<1, 2>>}

\* The index value published with each classification.
ScoreOf(class) ==
    CASE class = "Extreme Fear"  -> 10
      [] class = "Fear"          -> 30
      [] class = "Neutral"       -> 50
      [] class = "Greed"         -> 70
      [] class = "Extreme Greed" -> 90

EngineTrades ==
    {Trade(1, "BTC", "BUY", "0xA", s[1], s[2], c, ScoreOf(c)) :
        s \in Samples, c \in Range(sentiment_order)}

\* Rows whose Account cell may be missing.
AccountTrades ==
    {Trade(1, "BTC", "BUY", a, s[1], s[2], c, ScoreOf(c)) :
        s \in Samples, c \in {"Fear", "Greed"}, a \in {"0xA", NA}}

TestTrades ==
    {Trade(1, "BTC", "BUY", "0xA", s[1], s[2], c, ScoreOf(c)) :
        s \in Samples, c \in {"Extreme Fear", "Neutral", "Extreme Greed"}}

\* The merge is on Date, so a date fixes the classification of its rows.
ClassOn(date) == IF date = 1 THEN "Extreme Fear" ELSE "Extreme Greed"

RawTrades ==
    {Trade(dt, c, sd, "0xA", pnl, 2, ClassOn(dt), ScoreOf(ClassOn(dt))) :
        dt \in {1, 2}, c \in {"BTC", "ETH"}, sd \in {"BUY", "SELL"}, pnl \in {-2, 1}}

Frames(S, lo, hi) == UNION {[1..k -> S] : k \in lo..hi}

(***************************************************************************)
(* main, app.py lines 153-300.                                             *)
(***************************************************************************)
NoFrame == [loaded |-> FALSE, rows |-> <<>>]

\* min()/max() of the Date column of an empty frame.
NaT == 0

Min(S) == CHOOSE x \in S : \A y \in S : x <= y
Max(S) == CHOOSE x \in S : \A y \in S : x >= y

\* Lines 165-170: both date inputs are bounded by the ledger's range.
DateChoices(df) ==
    IF df = <<>> THEN {NaT}
    ELSE Min(Range(Column(df, "Date")))..Max(Range(Column(df, "Date")))

\* Lines 187-193
ApplyMask(df, sd, ed, coins, sides) ==
    LET Mask(r) == /\ r["Date"] >= sd
                   /\ r["Date"] <= ed
                   /\ r["Coin"] \in coins
                   /\ r["Side"] \in sides
    IN  SelectSeq(df, Mask)

\* 'filtered_df is None' in place of 'filtered_df.empty': never true of a frame.
IsEmptyAsNone(df) == FALSE

\* Line 196: DataFrame.empty
IsEmpty(df) == Len(df) = 0

NoStats == <<>>

Locals ==
    /\ start_date = NaT
    /\ end_date = NaT
    /\ selected_coins = {}
    /\ selected_sides = {}
    /\ filtered_df = <<>>
    /\ built_df = <<>>
    /\ stats_df = NoStats
    /\ prev_stats = NoStats
    /\ t_stat = None
    /\ p_val = NoPValue
    /\ kelly_plot = <<>>
    /\ report = NoReport
    /\ calls = <<>>
    /\ warned = FALSE

Init ==
    /\ raw_df \in {NoFrame} \cup
           {[loaded |-> TRUE, rows |-> r] : r \in Frames(RawTrades, 0, MaxRawRecords)}
    /\ Locals
    /\ pc = "start"

\* Lines 158-160 and 165-166: load_data returned None, or a frame.  For a
\* frame without rows min().date() is taken of NaT and handed to the date
\* widgets: the run either stops with an exception or goes on with NaT.
LoadData ==
    /\ pc = "start"
    /\ pc' \in IF ~raw_df.loaded THEN {"done"}
               ELSE IF raw_df.rows = <<>> THEN {"crashed", "widgets"}
               ELSE {"widgets"}
    /\ UNCHANGED <<raw_df, start_date, end_date, selected_coins, selected_sides,
                   filtered_df, built_df, stats_df, prev_stats, t_stat, p_val,
                   kelly_plot, report, calls, warned>>

\* Lines 161-193: the sidebar selections and the filtered frame.
SelectFilters ==
    /\ pc = "widgets"
    /\ LET all_coins == Range(Column(raw_df.rows, "Coin"))
           all_sides == Range(Column(raw_df.rows, "Side"))
       IN  \E sd \in DateChoices(raw_df.rows), ed \in DateChoices(raw_df.rows),
              sc \in SUBSET all_coins, ss \in SUBSET all_sides :
             /\ start_date' = sd
             /\ end_date' = ed
             /\ selected_coins' = (IF sc = {} THEN all_coins ELSE sc)
             /\ selected_sides' = ss
             /\ filtered_df' = ApplyMask(raw_df.rows, sd, ed, selected_coins', ss)
             /\ built_df' = filtered_df'
    /\ pc' = "filtered"
    /\ UNCHANGED <<raw_df, stats_df, prev_stats, t_stat, p_val, kelly_plot,
                   report, calls, warned>>

\* Lines 196-197
ShowWarning ==
    /\ pc = "filtered"
    /\ IsEmpty(filtered_df)
    /\ warned' = TRUE
    /\ pc' = "done"
    /\ UNCHANGED <<raw_df, start_date, end_date, selected_coins, selected_sides,
                   filtered_df, built_df, stats_df, prev_stats, t_stat, p_val,
                   kelly_plot, report, calls>>

\* A call of calculate_metrics(df): the result, the frame as the call leaves
\* it, and the call's record.
CallCalculateMetrics(df) ==
    /\ stats_df' = calculate_metrics(df)
    /\ filtered_df' = WithWinLoss(df)
    /\ calls' = Append(calls, [fn |-> "calculate_metrics", arg |-> df])

\* Line 199
RunCalculateMetrics ==
    /\ pc = "filtered"
    /\ ~IsEmpty(filtered_df)
    /\ CallCalculateMetrics(filtered_df)
    /\ pc' = "metrics"
    /\ UNCHANGED <<raw_df, start_date, end_date, selected_coins, selected_sides,
                   built_df, prev_stats, t_stat, p_val, kelly_plot, report, warned>>

CallHypothesisTest(df) ==
    /\ t_stat' = perform_hypothesis_test(df)[1]
    /\ p_val' = perform_hypothesis_test(df)[2]
    /\ calls' = Append(calls, [fn |-> "perform_hypothesis_test", arg |-> df])

\* Line 200
RunHypothesisTest ==
    /\ pc = "metrics"
    /\ CallHypothesisTest(filtered_df)
    /\ pc' = "tested"
    /\ UNCHANGED <<raw_df, start_date, end_date, selected_coins, selected_sides,
                   filtered_df, built_df, stats_df, prev_stats, kelly_plot,
                   report, warned>>

\* Lines 203-261: the KPIs, charts and table read stats_df; the Kelly chart
\* plots its own clamped copy.
RenderDashboard ==
    /\ pc = "tested"
    /\ kelly_plot' = KellyPlot(stats_df)
    /\ pc' = "rendered"
    /\ UNCHANGED <<raw_df, start_date, end_date, selected_coins, selected_sides,
                   filtered_df, built_df, stats_df, prev_stats, t_stat, p_val,
                   report, calls, warned>>

\* Lines 267-300: the report button, pressed or not.
ReportButton ==
    /\ pc = "rendered"
    /\ report' \in {NoReport, GenerateReport(stats_df)}
    /\ pc' = "done"
    /\ UNCHANGED <<raw_df, start_date, end_date, selected_coins, selected_sides,
                   filtered_df, built_df, stats_df, prev_stats, t_stat, p_val,
                   kelly_plot, calls, warned>>

\* Streamlit runs main again on the next interaction; load_data is cached
\* (line 78), every other name is local to the run.
Rerun ==
    /\ pc \in {"done", "crashed"}
    /\ pc' = "start"
    /\ start_date' = NaT
    /\ end_date' = NaT
    /\ selected_coins' = {}
    /\ selected_sides' = {}
    /\ filtered_df' = <<>>
    /\ built_df' = <<>>
    /\ stats_df' = NoStats
    /\ prev_stats' = NoStats
    /\ t_stat' = None
    /\ p_val' = NoPValue
    /\ kelly_plot' = <<>>
    /\ report' = NoReport
    /\ calls' = <<>>
    /\ warned' = FALSE
    /\ UNCHANGED raw_df

Next ==
    \/ LoadData
    \/ SelectFilters
    \/ ShowWarning
    \/ RunCalculateMetrics
    \/ RunHypothesisTest
    \/ RenderDashboard
    \/ ReportButton
    \/ Rerun

Spec == Init /\ [][Next]_vars

(***************************************************************************)
(* The engine called directly: calculate_metrics (once, again on the same  *)
(* frame, or on a reordering of the caller's records), the Kelly chart and *)
(* perform_hypothesis_test.                                                *)
(***************************************************************************)
InitCaller(S, hi) ==
    /\ raw_df = NoFrame
    /\ start_date = NaT
    /\ end_date = NaT
    /\ selected_coins = {}
    /\ selected_sides = {}
    /\ filtered_df \in Frames(S, 1, hi)
    /\ built_df = filtered_df
    /\ stats_df = NoStats
    /\ prev_stats = NoStats
    /\ t_stat = None
    /\ p_val = NoPValue
    /\ kelly_plot = <<>>
    /\ report = NoReport
    /\ calls = <<>>
    /\ warned = FALSE
    /\ pc = "caller"

EngineCalculate ==
    /\ pc = "caller"
    /\ CallCalculateMetrics(filtered_df)
    /\ pc' = "called"
    /\ UNCHANGED <<raw_df, start_date, end_date, selected_coins, selected_sides,
                   built_df, prev_stats, t_stat, p_val, kelly_plot, report, warned>>

\* A second call on the frame the first call was given.
EngineCalculateAgain ==
    /\ pc = "called"
    /\ prev_stats' = stats_df
    /\ CallCalculateMetrics(filtered_df)
    /\ pc' = "recalled"
    /\ UNCHANGED <<raw_df, start_date, end_date, selected_coins, selected_sides,
                   built_df, t_stat, p_val, kelly_plot, report, warned>>

\* The frame df with the records at positions i and j exchanged.
Exchanged(df, i, j) ==
    [k \in 1..Len(df) |-> IF k = i THEN df[j] ELSE IF k = j THEN df[i] ELSE df[k]]

\* A second call on a frame holding the caller's records in another order.
\* The caller's frame ranges over every order of every record set (Init), so
\* exchanging two neighbours reaches every reordering.
EngineCalculateShuffled ==
    /\ pc = "called"
    /\ prev_stats' = stats_df
    /\ \E i \in 1..(Len(built_df) - 1) :
          CallCalculateMetrics(Exchanged(built_df, i, i + 1))
    /\ pc' = "recalled"
    /\ UNCHANGED <<raw_df, start_date, end_date, selected_coins, selected_sides,
                   built_df, t_stat, p_val, kelly_plot, report, warned>>

EngineChart ==
    /\ pc = "called"
    /\ kelly_plot' = KellyPlot(stats_df)
    /\ pc' = "charted"
    /\ UNCHANGED <<raw_df, start_date, end_date, selected_coins, selected_sides,
                   filtered_df, built_df, stats_df, prev_stats, t_stat, p_val,
                   report, calls, warned>>

EngineTest ==
    /\ pc = "caller"
    /\ CallHypothesisTest(filtered_df)
    /\ pc' = "tested"
    /\ UNCHANGED <<raw_df, start_date, end_date, selected_coins, selected_sides,
                   filtered_df, built_df, stats_df, prev_stats, kelly_plot,
                   report, warned>>

NextEngine ==
    \/ EngineCalculate
    \/ EngineCalculateAgain
    \/ EngineCalculateShuffled
    \/ EngineChart

InitEngine == InitCaller(EngineTrades, MaxRecords)
SpecEngine == InitEngine /\ [][NextEngine]_vars

InitAccounts == InitCaller(AccountTrades, MaxRecords)
SpecAccounts == InitAccounts /\ [][NextEngine]_vars

InitTest == InitCaller(TestTrades, MaxTestRecords)
NextTest == EngineTest
SpecTest == InitTest /\ [][NextTest]_vars

(***************************************************************************)
(* Vocabulary of the properties.                                           *)
(***************************************************************************)
\* calculate_metrics has returned, and stats_df holds its result.
HasStats == \E i \in 1..Len(calls) : calls[i].fn = "calculate_metrics"

\* The Closed PnL values the caller put into a bucket.
BucketPnL(label) == GroupPnL(built_df, label)

ClassesPresent == Range(Column(built_df, "Sentiment_Class"))

HelperColumns == {"Is_Win", "Win_Amt", "Loss_Amt"}

\* A frame without the columns calculate_metrics writes.
OriginalColumns(df) ==
    [i \in 1..Len(df) |-> [c \in (DOMAIN df[i]) \ HelperColumns |-> df[i][c]]]

AllSame(s) == \A i \in 1..Len(s) : s[i] = s[1]

(***************************************************************************)
(* C1.  For every non-empty record set whose records carry one of the five *)
(* labels, the Trade_Count values of the returned rows sum to the number   *)
(* of input records.                                                       *)
(***************************************************************************)
C1_TradeCountsSumToTotal ==
    HasStats =>
        SumInts([i \in 1..Len(stats_df) |-> stats_df[i].Trade_Count]) = Len(built_df)

(***************************************************************************)
(* C2.  The returned rows are the labels present in the input, each once,  *)
(* in the order Extreme Fear, Fear, Neutral, Greed, Extreme Greed; a label *)
(* without records has no row.                                             *)
(***************************************************************************)
C2_CanonicalOrder ==
    HasStats =>
        LET IsPresent(l) == l \in ClassesPresent
        IN  [i \in 1..Len(stats_df) |-> stats_df[i].Sentiment]
                = SelectSeq(sentiment_order, IsPresent)

C2_Witness ==
    /\ HasStats
    /\ [i \in 1..Len(stats_df) |-> stats_df[i].Sentiment]
           = <<"Fear", "Greed", "Extreme Greed">>

(***************************************************************************)
(* C3.  A bucket without a losing trade, without a winning trade, or with  *)
(* an Average Loss magnitude of zero has Risk_Reward_Ratio,                *)
(* Kelly_Criterion and Kelly_Pct undefined (NaN): never an infinity, never *)
(* a finite number.                                                        *)
(***************************************************************************)
C3_DegenerateRatiosUndefined ==
    HasStats =>
        \A i \in 1..Len(stats_df) :
            LET r   == stats_df[i]
                pnl == BucketPnL(r.Sentiment)
            IN  (\/ \A j \in 1..Len(pnl) : ~(pnl[j] < 0)
                 \/ \A j \in 1..Len(pnl) : ~(pnl[j] > 0)
                 \/ r.Avg_Loss_Size = Zero)
                => /\ IsNaN(r.Risk_Reward_Ratio)
                   /\ IsNaN(r.Kelly_Criterion)
                   /\ IsNaN(r.Kelly_Pct)

(***************************************************************************)
(* C4.  Sharpe_Ratio is Avg_PnL / PnL_Std when PnL_Std > 0 and exactly 0   *)
(* otherwise; it is 0 for a bucket of one trade and for a bucket whose PnL *)
(* values are all the same.                                                *)
(***************************************************************************)
C4_SharpeRatio ==
    HasStats =>
        \A i \in 1..Len(stats_df) :
            LET r   == stats_df[i]
                pnl == BucketPnL(r.Sentiment)
            IN  /\ GtZero(r.PnL_Std) => r.Sharpe_Ratio = Div(r.Avg_PnL, r.PnL_Std)
                /\ ~GtZero(r.PnL_Std) => r.Sharpe_Ratio = Zero
                /\ (Len(pnl) = 1 \/ AllSame(pnl)) => r.Sharpe_Ratio = Zero

C4_Witness ==
    /\ HasStats
    /\ \E i \in 1..Len(stats_df) :
          Len(BucketPnL(stats_df[i].Sentiment)) = 1 /\ stats_df[i].Sharpe_Ratio = Zero
    /\ \E i \in 1..Len(stats_df) :
          GtZero(stats_df[i].PnL_Std) /\ LtZero(stats_df[i].Sharpe_Ratio)

(***************************************************************************)
(* C5.  perform_hypothesis_test returns (None, None) when either extreme   *)
(* group has fewer than two records, and otherwise a statistic and a       *)
(* p-value that are both finite.                                           *)
(***************************************************************************)
C5_TestAbsentOrFinite ==
    pc = "tested" =>
        IF Len(BucketPnL("Extreme Greed")) < 2 \/ Len(BucketPnL("Extreme Fear")) < 2
        THEN t_stat = None /\ p_val = NoPValue
        ELSE IsFinite(t_stat) /\ p_val.k \in {"sf", "zero"}

(***************************************************************************)
(* C6.  After calculate_metrics returns, the caller's record set is as the *)
(* caller built it: same records, same fields, same values.                *)
(***************************************************************************)
C6_InputUnchanged ==
    HasStats => filtered_df = built_df

C8_StdDefined ==
    HasStats =>
        \A i \in 1..Len(stats_df) :
            LET r == stats_df[i]
            IN  /\ ~IsNaN(r.PnL_Std)
                /\ ~LtZero(r.PnL_Std)
                /\ Len(BucketPnL(r.Sentiment)) = 1 => r.PnL_Std = Zero

(***************************************************************************)
(* C9.  Where Risk_Reward_Ratio is defined, Kelly_Criterion is the signed  *)
(* value Win_Rate - (1 - Win_Rate) / Risk_Reward_Ratio, negative when that *)
(* is negative, and Kelly_Pct is 100 times it; the chart clamps its own    *)
(* copy and leaves stats_df as returned.                                   *)
(***************************************************************************)
C9_KellySigned ==
    HasStats =>
        /\ \A i \in 1..Len(stats_df) :
              LET r == stats_df[i]
              IN  ~IsNaN(r.Risk_Reward_Ratio) =>
                     /\ r.Kelly_Criterion =
                            Sub(r.Win_Rate,
                                Div(Sub(Num(1), r.Win_Rate), r.Risk_Reward_Ratio))
                     /\ r.Kelly_Pct = Mul(r.Kelly_Criterion, Num(100))
        /\ pc = "charted" =>
              /\ Len(kelly_plot) = Len(stats_df)
              /\ \A i \in 1..Len(stats_df) :
                    /\ ~LtZero(kelly_plot[i])
                    /\ GtZero(stats_df[i].Kelly_Pct) => kelly_plot[i] = stats_df[i].Kelly_Pct

C9_Witness ==
    /\ pc = "charted"
    /\ \E i \in 1..Len(stats_df) :
          /\ LtZero(stats_df[i].Kelly_Criterion)
          /\ LtZero(stats_df[i].Kelly_Pct)
          /\ kelly_plot[i] = Zero

(***************************************************************************)
(* C10.  In a run of main the engine is never invoked on an empty filtered *)
(* set: an empty set gets the warning and nothing is computed; a non-empty *)
(* one gets calculate_metrics and then perform_hypothesis_test, both on    *)
(* that filtered set.                                                      *)
(***************************************************************************)
C10_NeverOnEmptySet ==
    /\ \A i \in 1..Len(calls) :
          /\ calls[i].arg # <<>>
          /\ OriginalColumns(calls[i].arg) = built_df
    /\ [i \in 1..Len(calls) |-> calls[i].fn] \in
          {<<>>, <<"calculate_metrics">>,
           <<"calculate_metrics", "perform_hypothesis_test">>}
    /\ warned => /\ built_df = <<>>
                 /\ calls = <<>>
                 /\ stats_df = NoStats
                 /\ t_stat = None
    /\ pc \in {"metrics", "tested", "rendered"} => built_df # <<>>
    /\ (pc = "done" /\ raw_df.loaded) =>
          IF built_df = <<>> THEN warned ELSE Len(calls) = 2

C10_Witness ==
    /\ pc = "done"
    /\ Len(calls) = 2
    /\ Len(built_df) = 1
    /\ Len(raw_df.rows) = 2

====
